---- MODULE Spec2Model ----
(***************************************************************************)
(* A model of src/src/typedjson.ts: serialize (the replacer driven by      *)
(* JSON.stringify), deserialize (applyConversion over the tag map),        *)
(* stringify (payload framing) and parse.                                  *)
(*                                                                         *)
(* Text is a sequence of one-character strings, so that printing, parsing, *)
(* substring, startsWith and split are computed character by character.    *)
(* A JavaScript value is a record whose field k names its kind; each kind  *)
(* has its own payload field.                                              *)
(*                                                                         *)
(* The file is an ES module, so its code runs in strict mode: an           *)
(* assignment to a property of a primitive raises TypeError.  Numbers are  *)
(* integers, a Date holds a time within the first minute of the epoch or   *)
(* NaN, Map keys are text, and a RegExp carries flags among d g i m s u y. *)
(* The variable pushed is a history variable: the code keeps no such       *)
(* record, the properties of the prefix stack are stated with it.          *)
(***************************************************************************)
EXTENDS Integers, Sequences, FiniteSets, TLC

(***************************************************************************)
(* Text                                                                    *)
(***************************************************************************)
DQ == "\""

BS == "\\"

Digits == <<"0", "1", "2", "3", "4", "5", "6", "7", "8", "9">>

IsDigit(c) == \E d \in 1..10 : Digits[d] = c

DigitVal(c) == (CHOOSE d \in 1..10 : Digits[d] = c) - 1

RECURSIVE NatText(_)
NatText(n) == IF n < 10 THEN <<Digits[n + 1]>>
              ELSE NatText(n \div 10) \o <<Digits[(n % 10) + 1]>>

\* Number::toString of an integer
NumText(n) == IF n < 0 THEN <<"-">> \o NatText(-n) ELSE NatText(n)

RECURSIVE TextNat(_)
TextNat(t) == IF t = <<>> THEN 0
              ELSE 10 * TextNat(SubSeq(t, 1, Len(t) - 1)) + DigitVal(t[Len(t)])

AllDigits(t) == t # <<>> /\ \A i \in 1..Len(t) : IsDigit(t[i])

\* String.prototype.startsWith
StartsWith(t, p) == Len(t) >= Len(p) /\ SubSeq(t, 1, Len(p)) = p

\* String.prototype.substring(0, n)
Substring0(t, n) == SubSeq(t, 1, IF n < 0 THEN 0 ELSE IF n > Len(t) THEN Len(t) ELSE n)

\* String.prototype.split(sep) for a one-character separator
RECURSIVE Split(_, _)
Split(t, sep) ==
    IF \E i \in 1..Len(t) : t[i] = sep
    THEN LET i == CHOOSE j \in 1..Len(t) : t[j] = sep /\ \A h \in 1..(j - 1) : t[h] # sep
         IN  <<SubSeq(t, 1, i - 1)>> \o Split(SubSeq(t, i + 1, Len(t)), sep)
    ELSE <<t>>

(***************************************************************************)
(* JavaScript values                                                       *)
(***************************************************************************)
JNull == [k |-> "null"]

JUndef == [k |-> "undefined"]

JBool(b) == [k |-> "bool", b |-> b]

JNum(n) == [k |-> "num", n |-> n]

JInf == [k |-> "inf"]

JNegInf == [k |-> "ninf"]

JNaN == [k |-> "nan"]

JStr(s) == [k |-> "str", s |-> s]

JBig(i) == [k |-> "bigint", i |-> i]

\* a Date holding a valid time value (milliseconds since the epoch)
JDate(ms) == [k |-> "date", ms |-> ms]

\* a Date whose time value is NaN
JInvalidDate == [k |-> "invaliddate"]

JRegExp(src, flags) == [k |-> "regexp", src |-> src, flags |-> flags]

\* an Error; name, message and stack are JavaScript values
JErr(name, message, stack) ==
    [k |-> "error", name |-> name, message |-> message, stack |-> stack]

\* an Array: el its elements, x its other own properties as <<key, value>> pairs
JArr(el) == [k |-> "arr", el |-> el, x |-> <<>>]

\* a plain object: its own properties as <<key, value>> pairs in property order
JObj(ps) == [k |-> "obj", ps |-> ps]

\* a Set: its members in iteration order
JSet(m) == [k |-> "set", m |-> m]

\* a Map: its entries as <<key, value>> pairs in iteration order, keys text
JMap(en) == [k |-> "map", en |-> en]

\* typeof
TypeOf(v) ==
    CASE v.k = "undefined" -> "undefined"
      [] v.k = "bool" -> "boolean"
      [] v.k \in {"num", "inf", "ninf", "nan"} -> "number"
      [] v.k = "str" -> "string"
      [] v.k = "bigint" -> "bigint"
      [] OTHER -> "object"

\* ToBoolean
Truthy(v) ==
    CASE v.k \in {"undefined", "null", "nan"} -> FALSE
      [] v.k = "bool" -> v.b
      [] v.k = "num" -> v.n # 0
      [] v.k = "str" -> v.s # <<>>
      [] v.k = "bigint" -> v.i # 0
      [] OTHER -> TRUE

\* an array index as a property key: a canonical numeric string
IsIndexKey(key) == AllDigits(key) /\ (Len(key) = 1 \/ key[1] # "0")

HasKey(ps, key) == \E i \in 1..Len(ps) : ps[i][1] = key

KeyPos(ps, key) == CHOOSE i \in 1..Len(ps) : ps[i][1] = key

\* where a new property key goes in an ordinary object's property order:
\* integer keys ascending first, then the other keys in creation order
InsertPos(ps, key) ==
    IF IsIndexKey(key)
    THEN LET after == {i \in 1..Len(ps) :
                          ~IsIndexKey(ps[i][1]) \/ TextNat(ps[i][1]) > TextNat(key)}
         IN  IF after = {} THEN Len(ps) + 1
             ELSE CHOOSE i \in after : \A j \in after : i <= j
    ELSE Len(ps) + 1

\* [[Set]] of an own data property on a list of properties
PutProp(ps, key, val) ==
    IF HasKey(ps, key)
    THEN [ps EXCEPT ![KeyPos(ps, key)] = <<key, val>>]
    ELSE LET p == InsertPos(ps, key)
         IN  SubSeq(ps, 1, p - 1) \o <<<<key, val>>>> \o SubSeq(ps, p, Len(ps))

\* Object.fromEntries / repeated definition of properties from a list of entries
RECURSIVE FromEntries(_)
FromEntries(en) ==
    IF en = <<>> THEN <<>>
    ELSE LET e == en[Len(en)]
         IN  PutProp(FromEntries(SubSeq(en, 1, Len(en) - 1)), e[1], e[2])

(***************************************************************************)
(* The JSON grammar's own print and parse (JSON.stringify without a        *)
(* replacer, JSON.parse), over the values the grammar represents.  Texts   *)
(* carry no white space outside strings, numbers are integers.             *)
(***************************************************************************)
RECURSIVE EscapeText(_)
EscapeText(s) ==
    IF s = <<>> THEN <<>>
    ELSE (IF s[1] = DQ \/ s[1] = BS THEN <<BS, s[1]>> ELSE <<s[1]>>)
         \o EscapeText(Tail(s))

\* QuoteJSONString
Quote(s) == <<DQ>> \o EscapeText(s) \o <<DQ>>

TNull == <<"n", "u", "l", "l">>

TTrue == <<"t", "r", "u", "e">>

TFalse == <<"f", "a", "l", "s", "e">>

RECURSIVE PrintJSON(_)
RECURSIVE PrintElems(_)
RECURSIVE PrintMembers(_, _)
\* SerializeJSONProperty on a value that needs no lowering
PrintJSON(v) ==
    CASE v.k = "bool" -> IF v.b THEN TTrue ELSE TFalse
      [] v.k = "num" -> NumText(v.n)
      [] v.k = "str" -> Quote(v.s)
      [] v.k = "arr" -> <<"[">> \o PrintElems(v.el) \o <<"]">>
      [] v.k = "obj" -> <<"{">> \o PrintMembers(v.ps, TRUE) \o <<"}">>
      [] OTHER -> TNull

PrintElems(el) ==
    IF el = <<>> THEN <<>>
    ELSE PrintJSON(el[1])
         \o (IF Len(el) > 1 THEN <<",">> ELSE <<>>) \o PrintElems(Tail(el))

\* a member whose value is undefined is left out
PrintMembers(ps, first) ==
    IF ps = <<>> THEN <<>>
    ELSE IF ps[1][2].k = "undefined" THEN PrintMembers(Tail(ps), first)
    ELSE (IF first THEN <<>> ELSE <<",">>)
         \o Quote(ps[1][1]) \o <<":">> \o PrintJSON(ps[1][2])
         \o PrintMembers(Tail(ps), FALSE)

ParseFail == [ok |-> FALSE, v |-> JNull, i |-> 0]

ParseOk(v, i) == [ok |-> TRUE, v |-> v, i |-> i]

At(t, i) == IF i <= Len(t) THEN t[i] ELSE "EOF"

RECURSIVE ScanDigits(_, _)
\* the position after the run of digits that starts at i
ScanDigits(t, i) == IF IsDigit(At(t, i)) THEN ScanDigits(t, i + 1) ELSE i

RECURSIVE ParseChars(_, _, _)
\* the characters of a string literal whose opening quote is before i
ParseChars(t, i, acc) ==
    LET c == At(t, i)
    IN  CASE c = "EOF" -> ParseFail
          [] c = DQ -> ParseOk(JStr(acc), i + 1)
          [] c = BS -> IF At(t, i + 1) \in {DQ, BS}
                       THEN ParseChars(t, i + 2, Append(acc, t[i + 1]))
                       ELSE ParseFail
          [] OTHER -> ParseChars(t, i + 1, Append(acc, c))

ParseNumber(t, i) ==
    LET neg == At(t, i) = "-"
        s == IF neg THEN i + 1 ELSE i
        e == ScanDigits(t, s)
    IN  IF e = s \/ (e > s + 1 /\ t[s] = "0") THEN ParseFail
        ELSE ParseOk(JNum((IF neg THEN -1 ELSE 1) * TextNat(SubSeq(t, s, e - 1))), e)

ParseLiteral(t, i, lit, v) ==
    IF SubSeq(t, i, i + Len(lit) - 1) = lit /\ i + Len(lit) - 1 <= Len(t)
    THEN ParseOk(v, i + Len(lit)) ELSE ParseFail

RECURSIVE ParseValue(_, _)
RECURSIVE ParseElems(_, _, _)
RECURSIVE ParseMembers(_, _, _)
ParseValue(t, i) ==
    LET c == At(t, i)
    IN  CASE c = "{" -> IF At(t, i + 1) = "}" THEN ParseOk(JObj(<<>>), i + 2)
                        ELSE ParseMembers(t, i + 1, <<>>)
          [] c = "[" -> IF At(t, i + 1) = "]" THEN ParseOk(JArr(<<>>), i + 2)
                        ELSE ParseElems(t, i + 1, <<>>)
          [] c = DQ -> ParseChars(t, i + 1, <<>>)
          [] c = "-" \/ IsDigit(c) -> ParseNumber(t, i)
          [] c = "n" -> ParseLiteral(t, i, TNull, JNull)
          [] c = "t" -> ParseLiteral(t, i, TTrue, JBool(TRUE))
          [] c = "f" -> ParseLiteral(t, i, TFalse, JBool(FALSE))
          [] OTHER -> ParseFail

ParseElems(t, i, acc) ==
    LET r == ParseValue(t, i)
    IN  IF ~r.ok THEN ParseFail
        ELSE CASE At(t, r.i) = "," -> ParseElems(t, r.i + 1, Append(acc, r.v))
               [] At(t, r.i) = "]" -> ParseOk(JArr(Append(acc, r.v)), r.i + 1)
               [] OTHER -> ParseFail

ParseMembers(t, i, acc) ==
    IF At(t, i) # DQ THEN ParseFail
    ELSE LET kr == ParseChars(t, i + 1, <<>>)
         IN  IF ~kr.ok \/ At(t, kr.i) # ":" THEN ParseFail
             ELSE LET r == ParseValue(t, kr.i + 1)
                  IN  IF ~r.ok THEN ParseFail
                      ELSE CASE At(t, r.i) = "," ->
                                    ParseMembers(t, r.i + 1, PutProp(acc, kr.v.s, r.v))
                             [] At(t, r.i) = "}" ->
                                    ParseOk(JObj(PutProp(acc, kr.v.s, r.v)), r.i + 1)
                             [] OTHER -> ParseFail

\* JSON.parse of a text: ok is FALSE where JSON.parse raises SyntaxError
ParseJSON(t) ==
    LET r == ParseValue(t, 1)
    IN  IF r.ok /\ r.i = Len(t) + 1 THEN r ELSE ParseFail

(***************************************************************************)
(* Built-ins the codec calls on the values it meets                        *)
(***************************************************************************)
TUndefined == <<"u", "n", "d", "e", "f", "i", "n", "e", "d">>

TInfinity == <<"I", "n", "f", "i", "n", "i", "t", "y">>

TNaN == <<"N", "a", "N">>

TObjectObject == <<"[", "o", "b", "j", "e", "c", "t", " ", "O", "b", "j", "e", "c", "t", "]">>

TIsoHead == <<"1", "9", "7", "0", "-", "0", "1", "-", "0", "1", "T", "0", "0", ":", "0", "0", ":">>

Pad(t, n) == [i \in 1..(n - Len(t)) |-> "0"] \o t

\* Date.prototype.toISOString, for a time value within the first minute of the epoch
IsoText(ms) ==
    TIsoHead \o Pad(NatText((ms \div 1000) % 60), 2) \o <<".">>
             \o Pad(NatText(ms % 1000), 3) \o <<"Z">>

\* Date.parse of a text: the ISO form above, and NaN for any other text of the model
DateOfText(t) ==
    IF /\ Len(t) = Len(TIsoHead) + 7
       /\ StartsWith(t, TIsoHead)
       /\ AllDigits(SubSeq(t, 18, 19)) /\ t[20] = "." /\ AllDigits(SubSeq(t, 21, 23))
       /\ t[24] = "Z"
    THEN JDate(1000 * TextNat(SubSeq(t, 18, 19)) + TextNat(SubSeq(t, 21, 23)))
    ELSE JInvalidDate

RECURSIVE JSToString(_)
RECURSIVE JoinElems(_)
\* ToString
JSToString(v) ==
    CASE v.k = "undefined" -> TUndefined
      [] v.k = "null" -> TNull
      [] v.k = "bool" -> IF v.b THEN TTrue ELSE TFalse
      [] v.k = "num" -> NumText(v.n)
      [] v.k = "bigint" -> NumText(v.i)
      [] v.k = "inf" -> TInfinity
      [] v.k = "ninf" -> <<"-">> \o TInfinity
      [] v.k = "nan" -> TNaN
      [] v.k = "str" -> v.s
      [] v.k = "arr" -> JoinElems(v.el)
      [] v.k = "regexp" -> <<"/">> \o v.src \o <<"/">> \o v.flags
      [] OTHER -> TObjectObject

\* Array.prototype.join(",")
JoinElems(el) ==
    IF el = <<>> THEN <<>>
    ELSE (IF el[1].k \in {"null", "undefined"} THEN <<>> ELSE JSToString(el[1]))
         \o (IF Len(el) > 1 THEN <<",">> ELSE <<>>) \o JoinElems(Tail(el))

\* reading a property of null or undefined raises TypeError
CanRead(c) == c.k \notin {"null", "undefined"}

\* c[key], for c neither null nor undefined
GetProp(c, key) ==
    CASE c.k = "obj" -> IF HasKey(c.ps, key) THEN c.ps[KeyPos(c.ps, key)][2] ELSE JUndef
      [] c.k = "arr" ->
            IF IsIndexKey(key) /\ TextNat(key) < Len(c.el) THEN c.el[TextNat(key) + 1]
            ELSE IF HasKey(c.x, key) THEN c.x[KeyPos(c.x, key)][2]
            ELSE JUndef
      [] c.k = "str" ->
            IF IsIndexKey(key) /\ TextNat(key) < Len(c.s) THEN JStr(<<c.s[TextNat(key) + 1]>>)
            ELSE JUndef
      [] c.k = "error" ->
            CASE key = <<"n", "a", "m", "e">> -> c.name
              [] key = <<"m", "e", "s", "s", "a", "g", "e">> -> c.message
              [] key = <<"s", "t", "a", "c", "k">> -> c.stack
              [] OTHER -> JUndef
      [] OTHER -> JUndef

\* c[key] = val in strict mode: threw where the assignment raises TypeError (c a
\* primitive).  A property added to a Date, Set, Map or RegExp is not kept.
SetProp(c, key, val) ==
    CASE c.k = "obj" -> [threw |-> FALSE, v |-> JObj(PutProp(c.ps, key, val))]
      [] c.k = "arr" ->
            IF IsIndexKey(key)
            THEN LET n == TextNat(key)
                     grown == c.el \o [i \in 1..(n + 1 - Len(c.el)) |-> JUndef]
                 IN  [threw |-> FALSE, v |-> [c EXCEPT !.el = [grown EXCEPT ![n + 1] = val]]]
            ELSE [threw |-> FALSE, v |-> [c EXCEPT !.x = PutProp(c.x, key, val)]]
      [] c.k = "error" ->
            [threw |-> FALSE,
             v |-> CASE key = <<"n", "a", "m", "e">> -> [c EXCEPT !.name = val]
                     [] key = <<"m", "e", "s", "s", "a", "g", "e">> -> [c EXCEPT !.message = val]
                     [] key = <<"s", "t", "a", "c", "k">> -> [c EXCEPT !.stack = val]
                     [] OTHER -> c]
      [] TypeOf(c) = "object" -> [threw |-> FALSE, v |-> c]
      [] OTHER -> [threw |-> TRUE, v |-> c]

\* Object.keys / Object.entries of a value
Entries(c) ==
    CASE c.k = "obj" -> c.ps
      [] c.k = "arr" -> [i \in 1..Len(c.el) |-> <<NatText(i - 1), c.el[i]>>] \o c.x
      [] c.k = "str" -> [i \in 1..Len(c.s) |-> <<NatText(i - 1), JStr(<<c.s[i]>>)>>]
      [] OTHER -> <<>>

(***************************************************************************)
(* NonJsonTypes, and their spelling in a printed tag map                   *)
(***************************************************************************)
NonJsonTypes ==
    {"date", "set", "map", "regexp", "bigint", "undefined", "infinity", "-infinity",
     "nan", "error"}

TagText(t) ==
    CASE t = "date" -> <<"d", "a", "t", "e">>
      [] t = "set" -> <<"s", "e", "t">>
      [] t = "map" -> <<"m", "a", "p">>
      [] t = "regexp" -> <<"r", "e", "g", "e", "x", "p">>
      [] t = "bigint" -> <<"b", "i", "g", "i", "n", "t">>
      [] t = "undefined" -> TUndefined
      [] t = "infinity" -> <<"i", "n", "f", "i", "n", "i", "t", "y">>
      [] t = "-infinity" -> <<"-", "i", "n", "f", "i", "n", "i", "t", "y">>
      [] t = "nan" -> <<"n", "a", "n">>
      [] t = "error" -> <<"e", "r", "r", "o", "r">>

\* the tag a tag map's value spells, "" when it spells none
TagOf(v) ==
    IF v.k = "str" /\ \E t \in NonJsonTypes : TagText(t) = v.s
    THEN CHOOSE t \in NonJsonTypes : TagText(t) = v.s
    ELSE ""


(***************************************************************************)
(* serialize: the replacer                                                 *)
(***************************************************************************)
KName == <<"n", "a", "m", "e">>

KMessage == <<"m", "e", "s", "s", "a", "g", "e">>

KStack == <<"s", "t", "a", "c", "k">>

EntryType(type, value, count) ==
    [type |-> type, value |-> value, count |-> count, iteration |-> 0]

Top(st) == st[Len(st)]

Pop(st) == SubSeq(st, 1, Len(st) - 1)

Bump(st) == [st EXCEPT ![Len(st)].iteration = @ + 1]

\* the owning frame of a visit: the top frame, charged with the visit; an exhausted
\* top frame is popped (with its prefix when it is an 'object' frame) and the visit
\* is charged to the frame below.  threw: the frame below is absent and its
\* iteration is read (TypeError).
ResolveEntry(stack, keys) ==
    IF stack = <<>> THEN [threw |-> FALSE, stack |-> stack, keys |-> keys]
    ELSE LET charged == Bump(stack)
         IN  IF Top(charged).iteration > Top(charged).count
             THEN LET ks == IF Top(charged).type = "object" THEN Pop(keys) ELSE keys
                      st == Pop(charged)
                  IN  IF st = <<>> THEN [threw |-> TRUE, stack |-> st, keys |-> ks]
                      ELSE [threw |-> FALSE, stack |-> Bump(st), keys |-> ks]
             ELSE [threw |-> FALSE, stack |-> charged, keys |-> keys]

\* a mutation of MetaKey: a separator is always written before the key
MetaKeyDotted(keys, key) ==
    (IF keys = <<>> THEN TUndefined ELSE Top(keys)) \o <<".">> \o key

\* `${keys[keys.length - 1]}${key}`: an absent prefix prints as "undefined"
MetaKey(keys, key) == (IF keys = <<>> THEN TUndefined ELSE Top(keys)) \o key

\* Map.prototype.set on the tag map, kept as entries in insertion order
MetaSet(metaMap, path, tag) ==
    IF HasKey(metaMap, path) THEN [metaMap EXCEPT ![KeyPos(metaMap, path)] = <<path, tag>>]
    ELSE Append(metaMap, <<path, tag>>)

\* the classification of an object value: its tag t, its lowered value, its child
\* count and the frame an Error pushes at once.  threw: toISOString of an invalid
\* Date raises RangeError.
LowerObject(value) ==
    LET plain(t, v, n) == [threw |-> FALSE, t |-> t, value |-> v, count |-> n, pushed |-> <<>>]
    IN  CASE value.k = "date" -> plain("date", JStr(IsoText(value.ms)), 0)
          [] value.k = "invaliddate" ->
                [threw |-> TRUE, t |-> "date", value |-> value, count |-> 0, pushed |-> <<>>]
          [] value.k = "set" -> plain("set", JArr(value.m), Len(value.m))
          [] value.k = "map" ->
                plain("map", JObj(FromEntries(value.en)), Len(FromEntries(value.en)))
          [] value.k = "arr" -> plain("undefined", value, Len(value.el))
          [] value.k = "regexp" -> plain("regexp", JStr(JSToString(value)), 0)
          [] value.k = "error" ->
                LET o == JObj(<<<<KName, value.name>>, <<KMessage, value.message>>,
                                <<KStack, value.stack>>>>)
                IN  [threw |-> FALSE, t |-> "error", value |-> o, count |-> 0,
                     pushed |-> <<EntryType("object", o, 3)>>]
          [] OTHER -> plain("object", value, Len(value.ps))

\* a mutation of RecordsTag: a Set or a Map records its tag only when it has members
RecordsTagNonEmpty(o) ==
    o.t \notin {"undefined", "object"} /\ (o.t \in {"set", "map"} => o.count # 0)

\* whether a classified object records its tag: t !== 'undefined' && t !== 'object'
RecordsTag(o) == o.t \notin {"undefined", "object"}

\* the tag and replacement of a value that is not a container with children
LowerScalar(valueType, value) ==
    CASE valueType = "bigint" -> [tag |-> "bigint", ret |-> JStr(NumText(value.i))]
      [] value.k = "inf" -> [tag |-> "infinity", ret |-> JStr(TInfinity)]
      [] value.k = "ninf" -> [tag |-> "-infinity", ret |-> JStr(<<"-">> \o TInfinity)]
      [] value.k = "nan" -> [tag |-> "nan", ret |-> JStr(TNaN)]
      [] value.k = "undefined" -> [tag |-> "undefined", ret |-> JNull]
      [] OTHER -> [tag |-> "", ret |-> value]

\* whether a frame pushed under `key` with tag t extends the prefix stack
PushesPrefix(key, t) == key # <<>> /\ t = "object"

\* one call replacer(key, arg): the stacks and tag map after it and the value it
\* returns to JSON.stringify
Replacer(stack, keys, metaMap, key, arg) ==
    LET r == ResolveEntry(stack, keys)
        value == IF r.stack # <<>> THEN GetProp(Top(r.stack).value, key) ELSE arg
        metaKey == MetaKey(r.keys, key)
        valueType == TypeOf(value)
        failed(e) == [threw |-> TRUE, err |-> e, stack |-> r.stack, keys |-> r.keys,
                      metaMap |-> metaMap, ret |-> JUndef]
    IN  IF r.threw THEN failed("TypeError")
        ELSE IF valueType = "object" /\ value.k # "null"
        THEN LET o == LowerObject(value)
                 m1 == IF RecordsTag(o) THEN MetaSet(metaMap, metaKey, o.t) ELSE metaMap
                 st1 == r.stack \o o.pushed
             IN  IF o.threw THEN failed("RangeError")
                 ELSE IF o.count # 0
                 THEN [threw |-> FALSE, err |-> "",
                       stack |-> Append(st1, EntryType(o.t, o.value, o.count)),
                       keys |-> IF PushesPrefix(key, o.t)
                                THEN Append(r.keys, metaKey \o <<".">>) ELSE r.keys,
                       metaMap |-> m1, ret |-> o.value]
                 ELSE [threw |-> FALSE, err |-> "", stack |-> st1, keys |-> r.keys,
                       metaMap |-> m1, ret |-> o.value]
        ELSE LET sc == LowerScalar(valueType, value)
             IN  [threw |-> FALSE, err |-> "", stack |-> r.stack, keys |-> r.keys,
                  metaMap |-> IF sc.tag # "" THEN MetaSet(metaMap, metaKey, sc.tag)
                              ELSE metaMap,
                  ret |-> sc.ret]

(***************************************************************************)
(* deserialize: applyConversion                                            *)
(***************************************************************************)
IsObject(v) == TypeOf(v) = "object" /\ v.k # "null"

RECURSIVE Dedupe(_)
\* the members a Set keeps of a list: SameValueZero on primitives, identity on objects
Dedupe(el) ==
    IF el = <<>> THEN <<>>
    ELSE LET front == SubSeq(el, 1, Len(el) - 1)
             last == el[Len(el)]
         IN  IF ~IsObject(last) /\ \E i \in 1..Len(front) : front[i] = last
             THEN Dedupe(front) ELSE Append(Dedupe(front), last)

RegExpFlags == {"d", "g", "i", "m", "s", "u", "y"}

\* /^\/(.*)\/([dgimsuy]*)$/.exec(t): the position of the closing slash, 0 on no match
RegExpMatch(t) ==
    LET ends == {j \in 2..Len(t) :
                    t[j] = "/" /\ \A h \in (j + 1)..Len(t) : t[h] \in RegExpFlags}
    IN  IF Len(t) >= 2 /\ t[1] = "/" /\ ends # {}
        THEN CHOOSE j \in ends : \A h \in ends : h <= j
        ELSE 0

Done(v) == [err |-> "", assign |-> TRUE, v |-> v]

Raise(e) == [err |-> e, assign |-> FALSE, v |-> JUndef]

\* new Date(value)
NewDate(value) ==
    CASE value.k = "undefined" -> JInvalidDate
      [] value.k = "null" -> JDate(0)
      [] value.k = "num" -> JDate(value.n)
      [] value.k = "bool" -> JDate(IF value.b THEN 1 ELSE 0)
      [] value.k \in {"nan", "inf", "ninf", "invaliddate"} -> JInvalidDate
      [] value.k = "date" -> value
      [] OTHER -> DateOfText(JSToString(value))

\* new Set(value)
NewSet(value) ==
    CASE value.k \in {"undefined", "null"} -> Done(JSet(<<>>))
      [] value.k = "arr" -> Done(JSet(Dedupe(value.el)))
      [] value.k = "str" -> Done(JSet(Dedupe([i \in 1..Len(value.s) |-> JStr(<<value.s[i]>>)])))
      [] value.k = "set" -> Done(value)
      [] OTHER -> Raise("TypeError")

\* new Map(Object.entries(value))
NewMap(value) ==
    IF CanRead(value) THEN Done(JMap(Entries(value))) ELSE Raise("TypeError")

\* the regexp case: the delimited form /body/flags, or the checked failure
NewRegExp(value) ==
    LET t == JSToString(value)
        j == RegExpMatch(t)
        body == SubSeq(t, 2, j - 1)
        flags == SubSeq(t, j + 1, Len(t))
    IN  IF j = 0 THEN Raise("Error: Invalid regexp")
        ELSE IF \E a, b \in 1..Len(flags) : a # b /\ flags[a] = flags[b]
        THEN Raise("SyntaxError")
        ELSE Done(JRegExp(IF body = <<>> THEN <<"(", "?", ":", ")">> ELSE body, flags))

\* StringToBigInt of a decimal text
BigIntOfText(t) ==
    LET neg == t # <<>> /\ t[1] = "-"
        d == IF neg THEN Tail(t) ELSE t
    IN  IF t = <<>> THEN Done(JBig(0))
        ELSE IF AllDigits(d) THEN Done(JBig((IF neg THEN -1 ELSE 1) * TextNat(d)))
        ELSE Raise("SyntaxError")

\* BigInt(value)
NewBigInt(value) ==
    CASE value.k \in {"undefined", "null"} -> Raise("TypeError")
      [] value.k = "num" -> Done(JBig(value.n))
      [] value.k = "bigint" -> Done(value)
      [] value.k = "bool" -> Done(JBig(IF value.b THEN 1 ELSE 0))
      [] value.k \in {"nan", "inf", "ninf"} -> Raise("RangeError")
      [] OTHER -> BigIntOfText(JSToString(value))

\* the error case: new Error(value.message), then name and stack as stored
NewError(value) ==
    IF ~CanRead(value) THEN Raise("TypeError")
    ELSE LET msg == GetProp(value, KMessage)
         IN  Done(JErr(GetProp(value, KName),
                       IF msg.k = "undefined" THEN JStr(<<>>) ELSE JStr(JSToString(msg)),
                       GetProp(value, KStack)))

\* the switch of applyConversion: the value stored at result[key] for a tag
Restore(type, value) ==
    CASE type = "date" -> Done(NewDate(value))
      [] type = "set" -> NewSet(value)
      [] type = "map" -> NewMap(value)
      [] type = "regexp" -> NewRegExp(value)
      [] type = "bigint" -> NewBigInt(value)
      [] type = "undefined" -> Done(JUndef)
      [] type = "infinity" -> Done(JInf)
      [] type = "-infinity" -> Done(JNegInf)
      [] type = "nan" -> Done(JNaN)
      [] type = "error" -> NewError(value)
      [] OTHER -> [err |-> "", assign |-> FALSE, v |-> value]

RECURSIVE ApplyConversion(_, _, _, _)
\* applyConversion(result, keys, type, depth), depth counted from 1: the error it
\* raises, if any, and result after the in-place conversion
ApplyConversion(result, keys, type, depth) ==
    LET key == keys[depth]
    IN  IF ~CanRead(result) THEN [err |-> "TypeError", v |-> result]
        ELSE IF depth < Len(keys)
        THEN LET child == GetProp(result, key)
                 r == ApplyConversion(child, keys, type, depth + 1)
             IN  IF r.err # "" THEN [err |-> r.err, v |-> result]
                 ELSE IF IsObject(child)
                 THEN [err |-> "", v |-> SetProp(result, key, r.v).v]
                 ELSE [err |-> "", v |-> result]
        ELSE LET c == Restore(type, GetProp(result, key))
                 w == SetProp(result, key, c.v)
             IN  IF c.err # "" THEN [err |-> c.err, v |-> result]
                 ELSE IF ~c.assign THEN [err |-> "", v |-> result]
                 ELSE IF w.threw THEN [err |-> "TypeError", v |-> result]
                 ELSE [err |-> "", v |-> w.v]

RECURSIVE ApplyAll(_, _)
\* the loop of deserialize over a list of tag-map entries, taken in the list's
\* order: the error the first failing conversion raises, or the converted result
ApplyAll(result, entries) ==
    IF entries = <<>> THEN [err |-> "", v |-> result]
    ELSE LET e == Head(entries)
             r == ApplyConversion(result, Split(e[1], "."), TagOf(e[2]), 1)
         IN  IF r.err # "" THEN [err |-> r.err, v |-> JUndef]
             ELSE ApplyAll(r.v, Tail(entries))

(***************************************************************************)
(* stringify and parse: the payload framing                               *)
(***************************************************************************)
KMeta == <<"_", "_", "m", "e", "t", "a", "_", "_">>

KJson == <<"_", "_", "j", "s", "o", "n", "_", "_">>

\* the mapping payload: the text without its last two characters, the tag map spliced
SpliceMeta(json, meta) ==
    Substring0(json, Len(json) - 2) \o <<",">> \o Quote(KMeta) \o <<":">>
        \o PrintJSON(meta) \o <<"}">>

\* the sequence payload, as the template literal writes it
WrapJson(json, meta) ==
    <<"{">> \o Quote(KJson) \o <<DQ, ":">> \o json \o <<",">> \o Quote(KMeta) \o <<":">>
        \o PrintJSON(meta) \o <<"}">>

\* what stringify returns for serialize's { json, meta }
Frame(json, meta) ==
    IF Truthy(json) /\ Truthy(meta)
    THEN IF StartsWith(json.s, <<"{">>) THEN JStr(SpliceMeta(json.s, meta))
         ELSE IF StartsWith(json.s, <<"[">>) THEN JStr(WrapJson(json.s, meta))
         ELSE json
    ELSE json

\* parse, up to its call of deserialize: the error it raises, or the { json, meta }
\* it hands to deserialize (call), or the data it returns as it is
ParsePayload(payload) ==
    LET p == ParseJSON(JSToString(payload))
        data == p.v
        none == [err |-> "", call |-> FALSE, json |-> JUndef, meta |-> JUndef, ret |-> JUndef]
    IN  IF ~p.ok THEN [none EXCEPT !.err = "SyntaxError"]
        ELSE IF ~CanRead(data) THEN [none EXCEPT !.err = "TypeError"]
        ELSE IF Truthy(GetProp(data, KJson))
        THEN [none EXCEPT !.call = TRUE, !.json = GetProp(data, KJson),
                          !.meta = GetProp(data, KMeta)]
        ELSE IF Truthy(GetProp(data, KMeta))
        THEN [none EXCEPT !.call = TRUE, !.json = payload, !.meta = GetProp(data, KMeta)]
        ELSE [none EXCEPT !.ret = data]

(***************************************************************************)
(* JSON.stringify's walk of the value the replacer returns                 *)
(***************************************************************************)
\* holder[key] as JSON.stringify hands it to the replacer: after toJSON
ToJSONArg(v) ==
    CASE v.k = "date" -> JStr(IsoText(v.ms))
      [] v.k = "invaliddate" -> JNull
      [] OTHER -> v

\* the visits JSON.stringify makes next for a value the replacer returned at pos
ChildVisits(pos, v) ==
    CASE v.k = "arr" ->
            [i \in 1..Len(v.el) |->
                [pos |-> Append(pos, i), key |-> NatText(i - 1), arg |-> ToJSONArg(v.el[i])]]
      [] v.k = "obj" ->
            [i \in 1..Len(v.ps) |->
                [pos |-> Append(pos, i), key |-> v.ps[i][1], arg |-> ToJSONArg(v.ps[i][2])]]
      [] OTHER -> <<>>

RECURSIVE PutAt(_, _, _)
\* the printed tree with the value at position pos replaced by v
PutAt(tree, pos, v) ==
    IF pos = <<>> THEN v
    ELSE IF tree.k = "arr"
    THEN [tree EXCEPT !.el[pos[1]] = PutAt(@, Tail(pos), v)]
    ELSE [tree EXCEPT !.ps[pos[1]] = <<@[1], PutAt(@[2], Tail(pos), v)>>]

(***************************************************************************)
(* The values the calls are made with                                      *)
(***************************************************************************)
\* the longest sequence at the root
MaxLen == 2

\* the deepest nesting of containers
MaxDepth == 3

Tx == <<"x">>

ErrorValue == JErr(JStr(<<"E">>), JStr(<<"b", "a", "d">>), JStr(<<"E", ":", "1">>))

PlainScalars == {JNull, JBool(TRUE), JNum(7), JNum(12), JStr(Tx)}

ExtendedScalars ==
    {JUndef, JInf, JNegInf, JNaN, JBig(5), JDate(3), JRegExp(Tx, <<"g">>)}

EmptyContainers == {JArr(<<>>), JObj(<<>>), JSet(<<>>), JMap(<<>>)}

Leaves == PlainScalars \cup ExtendedScalars \cup EmptyContainers \cup {ErrorValue}

\* keys of a root mapping: plain, empty, holding the separator
RootKeys == {<<"a">>, <<>>, <<"a", ".", "b">>}

SeqsUpTo(S, n) == UNION {[1..m -> S] : m \in 1..n}

\* a mapping or a Map with one member
OneMember == {JObj(<<<<key, v>>>>) : key \in RootKeys, v \in Leaves}
             \cup {JMap(<<<<<<"a">>, v>>>>) : v \in Leaves}

\* a mapping with two members
TwoMembers == {JObj(<<<<<<"a">>, v>>, <<<<"b">>, w>>>>) : v, w \in Leaves}

\* a sequence or a Set at the root, its elements scalars
RootSequences ==
    {JArr(el) : el \in SeqsUpTo({JNum(7), JStr(Tx)} \cup ExtendedScalars, MaxLen)}
    \cup {JSet(<<v>>) : v \in {JNum(7), JNaN}}
    \cup {JSet(<<JNum(7), v>>) : v \in {JStr(Tx), JNaN}}

ChainKey(d) == <<<<"a">>, <<"b">>, <<"c">>, <<"e">>, <<"f">>, <<"g">>>>[d]

\* a container around inner, followed or not by a sibling
Wraps(d, inner) ==
    {JObj(<<<<ChainKey(d), inner>>>>), JArr(<<inner>>), JMap(<<<<ChainKey(d), inner>>>>)}
    \cup {JObj(<<<<ChainKey(d), inner>>, <<<<"d">>, sib>>>>) : sib \in {JNum(2), JNaN}}
    \cup {JArr(<<inner, sib>>) : sib \in {JNum(2), JNaN}}
    \cup {JMap(<<<<ChainKey(d), inner>>, <<<<"d">>, sib>>>>) : sib \in {JNum(2), JNaN}}

RECURSIVE Chains(_)
\* containers nested d deep around one leaf
Chains(d) ==
    IF d = 0 THEN {JNum(1), JNaN}
    ELSE UNION {Wraps(d, inner) : inner \in Chains(d - 1)}

\* a mapping whose member closes an Error or a mapping stored under the empty key
Closers ==
    {JObj(<<<<<<"a">>, JObj(<<<<<<"e">>, ErrorValue>>>>)>>, <<<<"d">>, v>>>>) :
        v \in {JNum(2), JNaN}}
    \cup {JObj(<<<<<<>>, JObj(<<<<<<"b">>, w>>>>)>>, <<<<"d">>, v>>>>) :
        v, w \in {JNum(2), JNaN}}

\* a root mapping with a key that holds the separator, or a mapping stored under
\* the empty key, beside a member of the same spelling
Colliders ==
    {JObj(<<<<<<"a", ".", "b">>, JNaN>>, <<<<"a">>, JObj(<<<<<<"b">>, w>>>>)>>>>) :
        w \in {JInf, JNum(2)}}
    \cup {JObj(<<<<<<"b">>, JNaN>>, <<<<>>, JObj(<<<<<<"b">>, w>>>>)>>>>) :
        w \in {JInf, JNum(2)}}

\* a Map with a mapping among its entries, or beside a key that spells a path into it
Aliasers ==
    {JObj(<<<<<<"b">>, JMap(<<<<<<"b">>, JObj(<<<<<<"a">>, w>>>>)>>>>)>>>>) :
        w \in {JNaN, JNum(2)}}
    \cup {JObj(<<<<<<"a">>, JMap(<<<<<<"x">>, JNum(1)>>>>)>>, <<<<"a", ".", "x">>, JNaN>>>>)}

\* a Date whose time value is NaN: at the root, in a mapping, in a sequence
InvalidDates ==
    {JInvalidDate, JObj(<<<<<<"a">>, JInvalidDate>>>>), JArr(<<JNum(7), JInvalidDate>>)}

Inputs ==
    Leaves \cup OneMember \cup TwoMembers \cup RootSequences \cup Closers
    \cup UNION {Chains(d) : d \in 2..MaxDepth}
    \cup InvalidDates \cup Colliders \cup Aliasers

\* { json, meta } pairs handed to deserialize by a caller
ExternalPairs ==
    {[json |-> JUndef, meta |-> JUndef],
     [json |-> JNull, meta |-> JUndef],
     [json |-> JStr(<<>>), meta |-> JUndef],
     [json |-> JStr(PrintJSON(JObj(<<<<<<"r">>, JStr(<<"/", "x", "/", "g">>)>>>>))),
      meta |-> JObj(<<<<<<"r">>, JStr(TagText("regexp"))>>>>)],
     [json |-> JStr(PrintJSON(JObj(<<<<<<"r">>, JStr(<<"n", "o", "t", "-", "a">>)>>>>))),
      meta |-> JObj(<<<<<<"r">>, JStr(TagText("regexp"))>>>>)],
     [json |-> JStr(PrintJSON(JObj(<<<<<<"r">>, JStr(<<"/", "x">>)>>>>))),
      meta |-> JObj(<<<<<<"r">>, JStr(TagText("regexp"))>>>>)]}

\* payloads handed to parse by a caller: mappings that carry a "__meta__" member,
\* and the wrapped sequence with its "__json__" member as text and as a sequence
ExternalPayloads ==
    {JStr(PrintJSON(JObj(<<<<<<"a">>, JStr(TNaN)>>,
                          <<KMeta, JObj(<<<<<<"a">>, JStr(TagText("nan"))>>>>)>>>>))),
     JStr(PrintJSON(JObj(<<<<<<"a">>, JNum(7)>>,
                          <<KMeta, JObj(<<<<<<"b">>, JStr(TagText("undefined"))>>>>)>>>>))),
     JStr(PrintJSON(JObj(<<<<KMeta, JObj(<<<<<<"w">>, JStr(TagText("date"))>>>>)>>,
                          <<<<"w">>, JStr(IsoText(3))>>>>))),
     JStr(PrintJSON(JObj(<<<<KJson, JStr(PrintJSON(JArr(<<JNum(1), JStr(TNaN)>>)))>>,
                          <<KMeta, JObj(<<<<<<"1">>, JStr(TagText("nan"))>>>>)>>>>))),
     JStr(PrintJSON(JObj(<<<<KJson, JArr(<<JNum(1), JStr(TNaN)>>)>>,
                          <<KMeta, JObj(<<<<<<"1">>, JStr(TagText("nan"))>>>>)>>>>)))}

(***************************************************************************)
(* State                                                                   *)
(***************************************************************************)
VARIABLES
    call,      \* what the caller does: "codec", "deserialize" or "parse"
    pc,        \* where the calls stand
    data,      \* the value handed to serialize or stringify
    stack,     \* serialize: the frame stack
    keys,      \* serialize: the prefix stack
    pushed,    \* history: for each frame of the frame stack, whether a prefix was
               \* pushed with it
    metaMap,   \* serialize: the tag map being built, entries in insertion order
    todo,      \* JSON.stringify: the visits still to make, in order
    tree,      \* JSON.stringify: the values the replacer returned, in place
    json,      \* the json of { json, meta }
    meta,      \* the meta of { json, meta }
    framing,   \* whether the caller goes through stringify and parse
    payload,   \* what stringify returned, what parse is given
    result,    \* deserialize: the parsed tree being converted
    mkeys,     \* deserialize: the tag map entries still to apply
    out,       \* what deserialize or parse returned
    err        \* the error a call raised, "" when none

vars == <<call, pc, data, stack, keys, pushed, metaMap, todo, tree, json, meta, framing,
          payload, result, mkeys, out, err>>

Idle ==
    /\ stack = <<>> /\ keys = <<>> /\ pushed = <<>> /\ metaMap = <<>>
    /\ todo = <<>> /\ tree = JUndef
    /\ result = JUndef /\ mkeys = <<>> /\ out = JUndef /\ err = ""

Init ==
    /\ Idle
    /\ \/ /\ call = "codec" /\ pc = "serialize" /\ data \in Inputs
          /\ json = JUndef /\ meta = JUndef /\ framing = FALSE /\ payload = JUndef
       \/ /\ call = "deserialize" /\ pc = "deserialize" /\ data = JUndef
          /\ \E p \in ExternalPairs : json = p.json /\ meta = p.meta
          /\ framing = FALSE /\ payload = JUndef
       \/ /\ call = "parse" /\ pc = "parse" /\ data = JUndef
          /\ json = JUndef /\ meta = JUndef /\ framing = TRUE
          /\ payload \in ExternalPayloads

\* serialize, up to its call of JSON.stringify
SerializeEnter ==
    /\ pc = "serialize"
    /\ IF data.k = "null"
       THEN /\ json' = JStr(TNull) /\ meta' = JUndef /\ pc' = "serialized"
            /\ UNCHANGED <<stack, keys, pushed, metaMap, todo>>
       ELSE IF data.k = "undefined"
       THEN /\ json' = JUndef /\ meta' = JUndef /\ pc' = "serialized"
            /\ UNCHANGED <<stack, keys, pushed, metaMap, todo>>
       ELSE /\ stack' = <<>> /\ keys' = <<<<>>>> /\ pushed' = <<>> /\ metaMap' = <<>>
            /\ todo' = <<[pos |-> <<>>, key |-> <<>>, arg |-> ToJSONArg(data)]>>
            /\ pc' = "visit"
            /\ UNCHANGED <<json, meta>>
    /\ UNCHANGED <<call, data, tree, framing, payload, result, mkeys, out, err>>

\* one visit of JSON.stringify: the replacer is called and its value is printed
Visit ==
    /\ pc = "visit" /\ todo # <<>>
    /\ LET v == Head(todo)
           r == Replacer(stack, keys, metaMap, v.key, v.arg)
           kept == Len(ResolveEntry(stack, keys).stack)
       IN  /\ stack' = r.stack /\ keys' = r.keys /\ metaMap' = r.metaMap
           /\ pushed' = SubSeq(pushed, 1, kept)
                            \o [i \in 1..(Len(r.stack) - kept) |->
                                   Len(r.keys) > Len(ResolveEntry(stack, keys).keys)]
           /\ IF r.threw
              THEN /\ pc' = "threw" /\ err' = r.err /\ UNCHANGED <<tree, todo>>
              ELSE /\ tree' = PutAt(tree, v.pos, r.ret)
                   /\ todo' = ChildVisits(v.pos, r.ret) \o Tail(todo)
                   /\ UNCHANGED <<pc, err>>
    /\ UNCHANGED <<call, data, json, meta, framing, payload, result, mkeys, out>>

\* JSON.stringify is done: serialize returns { json, meta }
SerializeReturn ==
    /\ pc = "visit" /\ todo = <<>>
    /\ json' = JStr(PrintJSON(tree))
    /\ meta' = IF metaMap = <<>> THEN JUndef
               ELSE JObj(FromEntries([i \in 1..Len(metaMap) |->
                                        <<metaMap[i][1], JStr(TagText(metaMap[i][2]))>>]))
    /\ pc' = "serialized"
    /\ UNCHANGED <<call, data, stack, keys, pushed, metaMap, todo, tree, framing, payload,
                   result, mkeys, out, err>>

\* the caller hands serialize's result to deserialize
CallDeserialize ==
    /\ pc = "serialized" /\ ~framing
    /\ pc' = "deserialize"
    /\ UNCHANGED <<call, data, stack, keys, pushed, metaMap, todo, tree, json, meta, framing,
                   payload, result, mkeys, out, err>>

\* a mutation of EmptyResult: the absent marker
EmptyResultAbsent == JUndef

\* what deserialize returns for an empty or absent json
EmptyResult == JNull

\* deserialize, up to its loop over the tag map
DeserializeEnter ==
    /\ pc = "deserialize"
    /\ IF ~Truthy(json)
       THEN /\ out' = EmptyResult /\ pc' = "returned" /\ UNCHANGED <<result, mkeys, err>>
       ELSE LET p == ParseJSON(JSToString(json))
            IN  IF ~p.ok
                THEN /\ pc' = "threw" /\ err' = "SyntaxError"
                     /\ UNCHANGED <<result, mkeys, out>>
                ELSE /\ result' = p.v
                     /\ mkeys' = IF Truthy(meta) THEN Entries(meta) ELSE <<>>
                     /\ pc' = "convert"
                     /\ UNCHANGED <<out, err>>
    /\ UNCHANGED <<call, data, stack, keys, pushed, metaMap, todo, tree, json, meta, framing,
                   payload>>

\* one turn of the loop: applyConversion(result, key.split('.'), meta[key])
Convert ==
    /\ pc = "convert" /\ mkeys # <<>>
    /\ LET e == Head(mkeys)
           r == ApplyConversion(result, Split(e[1], "."), TagOf(e[2]), 1)
       IN  IF r.err # ""
           THEN /\ pc' = "threw" /\ err' = r.err /\ UNCHANGED <<result, mkeys>>
           ELSE /\ result' = r.v /\ mkeys' = Tail(mkeys) /\ UNCHANGED <<pc, err>>
    /\ UNCHANGED <<call, data, stack, keys, pushed, metaMap, todo, tree, json, meta, framing,
                   payload, out>>

\* deserialize returns result
DeserializeReturn ==
    /\ pc = "convert" /\ mkeys = <<>>
    /\ out' = result /\ pc' = "returned"
    /\ UNCHANGED <<call, data, stack, keys, pushed, metaMap, todo, tree, json, meta, framing,
                   payload, result, mkeys, err>>

\* stringify: serialize has returned, the payload is framed and returned
Stringify ==
    /\ pc = "serialized" /\ ~framing
    /\ framing' = TRUE
    /\ payload' = Frame(json, meta)
    /\ pc' = "parse"
    /\ UNCHANGED <<call, data, stack, keys, pushed, metaMap, todo, tree, json, meta, result,
                   mkeys, out, err>>

\* parse, up to its call of deserialize or its return of the parsed data
Parse ==
    /\ pc = "parse"
    /\ LET p == ParsePayload(payload)
       IN  IF p.err # ""
           THEN /\ pc' = "threw" /\ err' = p.err /\ UNCHANGED <<json, meta, out>>
           ELSE IF p.call
           THEN /\ json' = p.json /\ meta' = p.meta /\ pc' = "deserialize"
                /\ UNCHANGED <<out, err>>
           ELSE /\ out' = p.ret /\ pc' = "returned" /\ UNCHANGED <<json, meta, err>>
    /\ UNCHANGED <<call, data, stack, keys, pushed, metaMap, todo, tree, framing, payload,
                   result, mkeys>>

Next ==
    \/ SerializeEnter
    \/ Visit
    \/ SerializeReturn
    \/ CallDeserialize
    \/ DeserializeEnter
    \/ Convert
    \/ DeserializeReturn
    \/ Stringify
    \/ Parse

Spec == Init /\ [][Next]_vars

(***************************************************************************)
(* Deep equality and the shapes the properties speak of                    *)
(***************************************************************************)
KeysOf(ps) == {ps[i][1] : i \in 1..Len(ps)}

ValueAt(ps, key) == ps[KeyPos(ps, key)][2]

RECURSIVE DeepEq(_, _)
\* deep equality: members of a mapping and entries of a Map in any order, Errors by
\* name, message and stack, NaN equal to NaN
DeepEq(a, b) ==
    IF a.k # b.k THEN FALSE
    ELSE CASE a.k = "obj" ->
                 /\ KeysOf(a.ps) = KeysOf(b.ps)
                 /\ \A key \in KeysOf(a.ps) : DeepEq(ValueAt(a.ps, key), ValueAt(b.ps, key))
           [] a.k = "map" ->
                 /\ KeysOf(a.en) = KeysOf(b.en)
                 /\ \A key \in KeysOf(a.en) : DeepEq(ValueAt(a.en, key), ValueAt(b.en, key))
           [] a.k = "arr" ->
                 /\ Len(a.el) = Len(b.el) /\ a.x = <<>> /\ b.x = <<>>
                 /\ \A i \in 1..Len(a.el) : DeepEq(a.el[i], b.el[i])
           [] a.k = "set" ->
                 /\ Len(a.m) = Len(b.m)
                 /\ \A i \in 1..Len(a.m) : DeepEq(a.m[i], b.m[i])
           [] a.k = "error" ->
                 /\ DeepEq(a.name, b.name) /\ DeepEq(a.message, b.message)
                 /\ DeepEq(a.stack, b.stack)
           [] OTHER -> a = b

IsScalar(v) == v.k \in {"null", "bool", "num", "str"}

IsExtendedScalar(v) ==
    v.k \in {"undefined", "inf", "ninf", "nan", "bigint", "date", "regexp"}

RECURSIVE IsPlain(_)
\* no extended kind anywhere: null, booleans, finite numbers, text, sequences, mappings
IsPlain(v) ==
    CASE IsScalar(v) -> TRUE
      [] v.k = "arr" -> \A i \in 1..Len(v.el) : IsPlain(v.el[i])
      [] v.k = "obj" -> \A i \in 1..Len(v.ps) : IsPlain(v.ps[i][2])
      [] OTHER -> FALSE

HasSeparator(key) == \E i \in 1..Len(key) : key[i] = "."

RECURSIVE IsMappingTree(_)
\* mappings nested through mappings only, under non-empty keys without the separator,
\* their other members scalars of any kind, Errors or empty containers
IsMappingTree(v) ==
    /\ v.k = "obj"
    /\ \A i \in 1..Len(v.ps) :
          /\ v.ps[i][1] # <<>> /\ ~HasSeparator(v.ps[i][1])
          /\ \/ IsScalar(v.ps[i][2]) \/ IsExtendedScalar(v.ps[i][2])
             \/ v.ps[i][2] \in EmptyContainers \/ v.ps[i][2].k = "error"
             \/ IsMappingTree(v.ps[i][2])

\* the tag of an extended scalar
ScalarTag(v) ==
    CASE v.k = "undefined" -> "undefined"
      [] v.k = "inf" -> "infinity"
      [] v.k = "ninf" -> "-infinity"
      [] v.k = "nan" -> "nan"
      [] v.k = "bigint" -> "bigint"
      [] v.k = "date" -> "date"
      [] v.k = "regexp" -> "regexp"

\* a sequence of scalars, plain or extended
IsScalarSeq(v) ==
    v.k = "arr" /\ \A i \in 1..Len(v.el) : IsScalar(v.el[i]) \/ IsExtendedScalar(v.el[i])

\* the calls serialize then deserialize have both ended, by a return or a raise
CodecEnded == call = "codec" /\ ~framing /\ pc \in {"returned", "threw"}

\* the calls stringify then parse have both ended, by a return or a raise
FramingEnded == call = "codec" /\ framing /\ pc \in {"returned", "threw"}

(***************************************************************************)
(* Properties                                                              *)
(***************************************************************************)

\* C1: round trip.  For every value nested through mappings,
\* deserialize(serialize(v)) returns, and returns a value deep-equal to v.
C1_RoundTrip ==
    (CodecEnded /\ IsMappingTree(data)) => (pc = "returned" /\ DeepEq(out, data))

\* C2: idempotence of plain values.  For every value without an extended kind,
\* serialize returns an absent tag map and the text of the direct JSON print.
C2_PlainUntagged ==
    (call = "codec" /\ pc = "serialized" /\ IsPlain(data))
        => (meta = JUndef /\ json = JStr(PrintJSON(data)))

\* C3: payload framing round trip.  For every value whose lowered form is a mapping
\* or a sequence and which needs a tag, parse(stringify(v)) returns a value
\* deep-equal to v.
C3_FramingRoundTrip ==
    (FramingEnded /\ (IsMappingTree(data) \/ IsScalarSeq(data)) /\ ~IsPlain(data))
        => (pc = "returned" /\ DeepEq(out, data))

\* C4: mapping payload splice.  When the text starts with '{' and the tag map is not
\* empty, stringify returns the text less its final closing brace, followed by
\* ,"__meta__":<JSON of the tag map>}.
C4_SpliceKeepsText ==
    (call = "codec" /\ framing /\ pc = "parse" /\ Truthy(json) /\ Truthy(meta)
        /\ StartsWith(json.s, <<"{">>) /\ IsMappingTree(data))
        => payload = JStr(SubSeq(json.s, 1, Len(json.s) - 1) \o <<",">> \o Quote(KMeta)
                          \o <<":">> \o PrintJSON(meta) \o <<"}">>)

\* the value a visit is about to classify, and the path computed for it
VisitedValue ==
    LET r == ResolveEntry(stack, keys)
    IN  IF r.stack # <<>> THEN GetProp(Top(r.stack).value, Head(todo).key)
        ELSE Head(todo).arg

VisitedPath == MetaKey(ResolveEntry(stack, keys).keys, Head(todo).key)

IsEmptyCollection(v) == (v.k = "set" /\ v.m = <<>>) \/ (v.k = "map" /\ v.en = <<>>)

\* a root mapping whose only member is an empty Set or Map, its key without separator
SoleEmpty ==
    {JObj(<<<<key, v>>>>) : key \in {<<"a">>, <<>>}, v \in {JSet(<<>>), JMap(<<>>)}}

\* C5 as stated: an empty Set or Map is encoded with no tag recorded and decodes
\* back as a plain empty sequence / mapping.
C5_EmptyCollectionUntagged ==
    (CodecEnded /\ data \in SoleEmpty)
        => (pc = "returned" /\ meta = JUndef
            /\ out.ps[1][2] \in {JArr(<<>>), JObj(<<>>)})

\* C5 as amended: a visit that classifies an empty Set or Map pushes no frame and
\* records the tag 'set' / 'map' under the path computed for the visit; the sole
\* member of a root mapping, under a key without the separator, that is an empty
\* Set or Map decodes back as an empty Set or Map.
C5_EmptyCollectionTagged ==
    [][/\ (pc = "visit" /\ todo # <<>> /\ IsEmptyCollection(VisitedValue))
            => /\ HasKey(metaMap', VisitedPath)
               /\ ValueAt(metaMap', VisitedPath) = VisitedValue.k
               /\ stack' = ResolveEntry(stack, keys).stack
       /\ (CodecEnded' /\ data' \in SoleEmpty)
            => (pc' = "returned" /\ DeepEq(out', data'))]_vars

C5_Witness ==
    /\ CodecEnded /\ pc = "returned"
    /\ data = JObj(<<<<<<"a">>, JSet(<<>>)>>>>)
    /\ meta = JObj(<<<<<<"a">>, JStr(TagText("set"))>>>>)
    /\ out = data

\* C6 as stated: deserialize of an empty or absent text returns the absent marker.
C6_EmptyTextGivesAbsent ==
    (pc = "returned" /\ ~framing /\ ~Truthy(json)) => out = JUndef

\* C6 as amended: deserialize of an empty or absent text returns null; in
\* particular deserialize(serialize(undefined)) is null.
C6_EmptyTextGivesNull ==
    (pc = "returned" /\ ~framing /\ ~Truthy(json)) => out = JNull

C6_Witness ==
    /\ call = "codec" /\ ~framing /\ pc = "returned"
    /\ data = JUndef /\ json = JUndef /\ out = JNull

\* the payload parses to a mapping with a "__meta__" member and no "__json__" member
PayloadHasMetaOnly ==
    /\ payload.k = "str"
    /\ LET p == ParseJSON(payload.s)
       IN  p.ok /\ p.v.k = "obj" /\ HasKey(p.v.ps, KMeta) /\ ~HasKey(p.v.ps, KJson)

\* C7: parse of a mapping payload with a "__meta__" member (and no "__json__"
\* member) returns a value that has no "__meta__" member.
C7_MetaStripped ==
    (call = "parse" /\ pc = "returned" /\ PayloadHasMetaOnly)
        => ~(out.k = "obj" /\ HasKey(out.ps, KMeta))

\* C8: for every value that needs no tag, stringify(v) is the representable text of
\* v, and parse of it returns a value deep-equal to v without raising.
C8_UntaggedPayload ==
    (call = "codec" /\ framing /\ IsPlain(data))
        => /\ payload = JStr(PrintJSON(data))
           /\ pc \in {"returned", "threw"} => (pc = "returned" /\ DeepEq(out, data))

\* the number of elements of an extended kind
ExtendedCount(el) == Cardinality({i \in 1..Len(el) : IsExtendedScalar(el[i])})

\* C9: for a sequence of scalars at the root, the element of an extended scalar kind
\* at index i is recorded under the path that is the decimal index i, nothing else
\* is recorded, and deserialize returns a sequence deep-equal to the original.
C9_RootSequencePaths ==
    (call = "codec" /\ IsScalarSeq(data)) =>
        /\ pc = "serialized" =>
              /\ \A i \in 1..Len(data.el) :
                    GetProp(meta, NatText(i - 1)) =
                        IF IsExtendedScalar(data.el[i])
                        THEN JStr(TagText(ScalarTag(data.el[i]))) ELSE JUndef
              /\ Len(Entries(meta)) = ExtendedCount(data.el)
        /\ CodecEnded => (pc = "returned" /\ DeepEq(out, data))

C9_Witness ==
    /\ CodecEnded /\ pc = "returned"
    /\ data = JArr(<<JNum(7), JNaN>>)
    /\ meta = JObj(<<<<<<"1">>, JStr(TagText("nan"))>>>>)
    /\ out = data

\* a tag map that holds 'regexp' for a member whose stored text is not /body/flags
MalformedPattern ==
    /\ Truthy(json) /\ json.k = "str" /\ meta.k = "obj" /\ ParseJSON(json.s).ok
    /\ \E i \in 1..Len(meta.ps) :
          /\ TagOf(meta.ps[i][2]) = "regexp"
          /\ RegExpMatch(JSToString(GetProp(ParseJSON(json.s).v, meta.ps[i][1]))) = 0

\* C10: deserialize raises on a malformed pattern, and raises nothing else when the
\* text and the tag map come from serialize.
C10_OnlyMalformedPatternRaises ==
    /\ (call = "deserialize" /\ pc \in {"returned", "threw"} /\ MalformedPattern)
          => (pc = "threw" /\ err = "Error: Invalid regexp")
    /\ (CodecEnded /\ pc = "threw" /\ IsMappingTree(data)) => err = "Error: Invalid regexp"

RECURSIVE GetAt(_, _)
\* the value at position pos of the tree JSON.stringify prints
GetAt(t, pos) ==
    IF pos = <<>> THEN t
    ELSE IF t.k = "arr" THEN GetAt(t.el[pos[1]], Tail(pos))
    ELSE GetAt(t.ps[pos[1]][2], Tail(pos))

\* the container JSON.stringify takes the visited key from, its members already
\* visited replaced by what the replacer returned for them
VisitedHolder == GetAt(tree, SubSeq(Head(todo).pos, 1, Len(Head(todo).pos) - 1))

\* the frame's container is the holder: the same keys in the same order, and the
\* same values from the n-th member on
HoldsFrom(frame, holder, n) ==
    LET fv == Entries(frame.value)
        hv == Entries(holder)
    IN  /\ frame.value.k = holder.k /\ Len(fv) = Len(hv)
        /\ \A i \in 1..Len(fv) : fv[i][1] = hv[i][1]
        /\ \A i \in n..Len(fv) : fv[i][2] = hv[i][2]

\* C11: one pop suffices.  At every visit of a key inside a container, after at
\* most one exhausted frame is popped the top frame is the frame of the container
\* that directly holds the visited key, and the value re-resolved as
\* owning_frame.value[key] is the child JSON.stringify is visiting.
C11_OnePopSuffices ==
    (call = "codec" /\ pc = "visit" /\ todo # <<>> /\ Head(todo).pos # <<>>) =>
        LET r == ResolveEntry(stack, keys)
            pos == Head(todo).pos
        IN  /\ ~r.threw /\ r.stack # <<>>
            /\ HoldsFrom(Top(r.stack), VisitedHolder, pos[Len(pos)])
            /\ GetProp(Top(r.stack).value, Head(todo).key) = GetAt(tree, pos)

\* the number of frames on the frame stack that pushed a prefix when they were pushed
PrefixFrames == Cardinality({i \in 1..Len(pushed) : pushed[i]})

\* C12: the prefix stack stays in step with the frame stack.  After every visit the
\* prefix stack is not empty and its depth is 1 plus the number of frames on the
\* frame stack that pushed a prefix; a visit pops a prefix only when the frame it
\* pops pushed one.
C12_PrefixInStep ==
    [][(call = "codec" /\ pc = "visit" /\ todo # <<>>) =>
          /\ keys' # <<>>
          /\ Len(keys') = 1 + PrefixFrames'
          /\ Len(ResolveEntry(stack, keys).keys) < Len(keys) => pushed[Len(stack)]]_vars

\* a non-empty Map whose entries hold scalars, plain or extended
IsMapOfScalars(v) ==
    /\ v.k = "map" /\ v.en # <<>>
    /\ \A j \in 1..Len(v.en) : IsScalar(v.en[j][2]) \/ IsExtendedScalar(v.en[j][2])

\* a mapping, its keys non-empty and without the separator, that holds such a Map
\* among members that are scalars or such Maps
HoldsMap(v) ==
    /\ v.k = "obj"
    /\ \E i \in 1..Len(v.ps) : IsMapOfScalars(v.ps[i][2])
    /\ \A i \in 1..Len(v.ps) :
          /\ v.ps[i][1] # <<>> /\ ~HasSeparator(v.ps[i][1])
          /\ \/ IsScalar(v.ps[i][2]) \/ IsExtendedScalar(v.ps[i][2])
             \/ IsMapOfScalars(v.ps[i][2])

\* the tag map holds the tag of every extended scalar of Map m under at \o its key
MapChildrenTaggedAt(m, at) ==
    \A j \in 1..Len(m.en) :
        IsExtendedScalar(m.en[j][2])
            => GetProp(meta, at \o m.en[j][1]) = JStr(TagText(ScalarTag(m.en[j][2])))

\* C13: Map children carry the Map's path segment.  A tagged value stored under
\* entry key k of a non-empty Map located at path P is recorded at P.k (at k when
\* the Map is the root), and deserialize restores the value from there.
C13_MapChildPaths ==
    /\ (call = "codec" /\ pc = "serialized" /\ IsMapOfScalars(data))
          => MapChildrenTaggedAt(data, <<>>)
    /\ (call = "codec" /\ pc = "serialized" /\ HoldsMap(data))
          => \A i \in 1..Len(data.ps) :
                IsMapOfScalars(data.ps[i][2])
                    => MapChildrenTaggedAt(data.ps[i][2], data.ps[i][1] \o <<".">>)
    /\ (CodecEnded /\ HoldsMap(data)) => (pc = "returned" /\ DeepEq(out, data))

\* serialize raised: a visit raised, the visits that remain never made
SerializeRaised == call = "codec" /\ pc = "threw" /\ todo # <<>>

\* no visit empties the frame stack: the frame below a popped frame is there
RootFrameKept ==
    (call = "codec" /\ pc = "visit" /\ todo # <<>>) => ~ResolveEntry(stack, keys).threw

\* C14: the encoder never fails.  serialize completes without raising for every
\* value tree, and no visit pops the last frame off the frame stack and then reads
\* the absent owning frame.
C14_EncoderNeverFails == ~SerializeRaised /\ RootFrameKept

RECURSIVE OnlyMappings(_)
\* mappings nested through mappings only, under any keys, their other members scalars
OnlyMappings(v) ==
    /\ v.k = "obj"
    /\ \A i \in 1..Len(v.ps) :
          \/ IsScalar(v.ps[i][2]) \/ IsExtendedScalar(v.ps[i][2])
          \/ OnlyMappings(v.ps[i][2])

\* C15: path uniqueness under mappings.  In one serialize call over mappings nested
\* through mappings, whatever their keys, the path computed for a visited location
\* is not a path an earlier location was tagged under: the tag map gets one entry
\* per tagged location.
C15_PathsDistinct ==
    (call = "codec" /\ pc = "visit" /\ todo # <<>> /\ OnlyMappings(data))
        => ~HasKey(metaMap, VisitedPath)

RECURSIVE SameValue(_, _)
\* the same value: as deep equality, and a sequence's other own properties count
SameValue(a, b) ==
    IF a.k # b.k THEN FALSE
    ELSE CASE a.k = "obj" ->
                 /\ KeysOf(a.ps) = KeysOf(b.ps)
                 /\ \A key \in KeysOf(a.ps) : SameValue(ValueAt(a.ps, key), ValueAt(b.ps, key))
           [] a.k = "map" ->
                 /\ KeysOf(a.en) = KeysOf(b.en)
                 /\ \A key \in KeysOf(a.en) : SameValue(ValueAt(a.en, key), ValueAt(b.en, key))
           [] a.k = "arr" ->
                 /\ Len(a.el) = Len(b.el) /\ KeysOf(a.x) = KeysOf(b.x)
                 /\ \A i \in 1..Len(a.el) : SameValue(a.el[i], b.el[i])
                 /\ \A key \in KeysOf(a.x) : SameValue(ValueAt(a.x, key), ValueAt(b.x, key))
           [] a.k = "set" ->
                 /\ Len(a.m) = Len(b.m)
                 /\ \A i \in 1..Len(a.m) : SameValue(a.m[i], b.m[i])
           [] a.k = "error" ->
                 /\ SameValue(a.name, b.name) /\ SameValue(a.message, b.message)
                 /\ SameValue(a.stack, b.stack)
           [] OTHER -> a = b

\* the same outcome of two runs of the loop: the same failure, or the same value
SameOutcome(p, q) == p.err = q.err /\ (p.err = "" => SameValue(p.v, q.v))

\* C16: decode order is irrelevant.  For every text and tag map that serialize
\* returns, applying the tag-map entries to the parsed text in any order gives the
\* same outcome: the same restored value, or the same failure.
C16_OrderIrrelevant ==
    (call = "codec" /\ pc = "serialized" /\ Truthy(json) /\ Truthy(meta)) =>
        LET es == Entries(meta)
            parsed == ParseJSON(json.s).v
        IN  \A f \in Permutations(1..Len(es)) :
                SameOutcome(ApplyAll(parsed, [i \in 1..Len(es) |-> es[f[i]]]),
                            ApplyAll(parsed, es))

\* a value of an extended kind that serialize can be given as the root
IsRootExtended(v) ==
    v.k \in {"date", "set", "map", "regexp", "bigint", "inf", "ninf", "nan"}

\* the tag of such a value
RootTag(v) == IF v.k \in {"set", "map"} THEN v.k ELSE ScalarTag(v)

\* C17: root-level extended kinds.  When the root value is a date, Set, Map, RegExp,
\* BigInt or non-finite number, serialize records its tag under the empty path and
\* deserialize(serialize(v)) returns a value deep-equal to v without raising.
C17_RootExtended ==
    /\ (call = "codec" /\ pc = "serialized" /\ IsRootExtended(data))
          => GetProp(meta, <<>>) = JStr(TagText(RootTag(data)))
    /\ (CodecEnded /\ IsRootExtended(data)) => (pc = "returned" /\ DeepEq(out, data))

\* the sequence payload is being handed to parse
WrapsSequence ==
    /\ call = "codec" /\ framing /\ pc = "parse"
    /\ Truthy(json) /\ Truthy(meta) /\ StartsWith(json.s, <<"[">>)

\* C18: sequence payload wrap.  When the text starts with '[' and the tag map is not
\* empty, stringify returns well-formed text that parses to a mapping with exactly
\* the keys "__json__", holding the sequence, and "__meta__", holding the tag map;
\* parse of that payload returns the sequence decoded with the tag map.
C18_SequenceWrap ==
    /\ WrapsSequence =>
          LET p == ParseJSON(JSToString(payload))
          IN  /\ p.ok /\ p.v.k = "obj"
              /\ KeysOf(p.v.ps) = {KJson, KMeta}
              /\ GetProp(p.v, KJson) \in {ParseJSON(json.s).v, json}
              /\ GetProp(p.v, KMeta) = meta
    /\ (FramingEnded /\ IsScalarSeq(data) /\ ~IsPlain(data))
          => (pc = "returned" /\ DeepEq(out, data))

====
